---------------------------- MODULE Spec2Model ----------------------------
(***************************************************************************)
(* Model of nav_pkg/help.py: HazardControlGUI, the operator console of the *)
(* rover.  Three activities share the object's fields: the Qt timer that   *)
(* runs update_output (20 Hz), the Qt timer that runs update_gamepad       *)
(* (2 Hz), and the ROS thread started by setup_ros_node.                   *)
(*                                                                         *)
(* Units.  Directions and controller axes are held in hundredths           *)
(* (1.0 = 100).  speed is held as the slider value it is computed from     *)
(* (speed = value / 100.0), so 0..100.  Distances and the threshold are    *)
(* held in tenths of a metre (the threshold slider's own unit).            *)
(***************************************************************************)
EXTENDS Integers, Sequences, FiniteSets, TLC

VARIABLES
    button_states,      \* self.button_states: the four manual buttons
    speed,              \* self.speed (in hundredths)
    speed_slider,       \* self.speed_slider.value()
    x_dir, z_dir,       \* self.x_dir, self.z_dir: the controller direction
    hazard_distance,    \* self.hazard_distance (tenths of a metre)
    emergency_active,   \* self.emergency_active
    hazard_threshold,   \* self.hazard_threshold (tenths of a metre)
    safe_mode_override, \* self.safe_mode_override
    mode_label,         \* the mode shown by self.mode_label
    ros_node,           \* self.ros_node: "None" or "node"
    ros_connected,      \* self.ros_connected
    ros_pc,             \* position of ros_thread_function
    joystick,           \* self.joystick: "None" or "Joystick0"
    gamepad_connected,  \* self.gamepad_connected
    pad_attached,       \* environment: pygame.joystick.get_count() > 0
    last_x, last_z, last_speed,  \* self.last_x, self.last_z, self.last_speed
    wire,               \* arguments of the latest ros_node.wheel_drive call
    applied,            \* the intent of the latest wheel_drive call that took
                        \* effect on the transport (at rest to begin with,
                        \* as last_x, last_z, last_speed assume)
    cand,               \* (x, z, speed) computed by the latest update_output
    sample,             \* the distance of the latest hazard sample delivered
    axes,               \* the axis readings and the slider value read by
                        \* the latest step, when it was an update_gamepad
                        \* run that read them
    step                \* what the latest step did: a tick that "sent", "held"
                        \* or found "nonode"; a sample by which the mode
                        \* "entered" EMERGENCY_STOPPED, or any other sample
                        \* ("sampled"); a poll whose except branch ran
                        \* ("pollfailed"); "other"

vars == <<button_states, speed, speed_slider, x_dir, z_dir, hazard_distance,
          emergency_active, hazard_threshold, safe_mode_override, mode_label,
          ros_node, ros_connected, ros_pc, joystick, gamepad_connected,
          pad_attached, last_x, last_z, last_speed, wire, applied, cand, sample,
          axes, step>>

--------------------------------------------------------------------------
(* Bounds of the model and the input sets of the environment.              *)

\* The operator drags the speed slider to 0..MaxSlowSlider, or to 5.
MaxSlowSlider == 1

Buttons == {"forward", "backward", "left", "right"}

\* Values the operator drags the speed slider to.
SliderChoices == (0..MaxSlowSlider) \cup {5}

\* Values the operator drags the speed slider to while a controller is in
\* use.
PadSliderChoices == {0, 1}

\* Readings of axis 3 (right stick), in hundredths: full left, and a
\* deflection too small to move the slider.
SpeedAxisValues == {-100, -10}

\* Readings of axis 0 (left stick, lateral), in hundredths.
LateralAxisValues == {0, 100}

\* Readings of axis 1 (left stick, longitudinal), in hundredths: full
\* forward, exactly the deadzone.
LongAxisValues == {-100, 20}

\* The readings of the specification that exercises the sticks alone:
\* axes 0 and 1 inside, at and outside the deadzone, on both sides of zero;
\* axis 3 full right, full left, and too small to move the slider.
StickLateralValues == {5, 20, 50, -100}
StickLongValues == {-20, 21, -50, 100}
StickSpeedValues == {100, -100, 10}

\* Values the operator drags the speed slider to in that specification.
StickSliderChoices == {3, 98}

\* joystick.get_numaxes()
NumAxesChoices == {0, 1, 2, 4}

\* Distances the hazard feed delivers (tenths of a metre).
SampleDistances == {40, 50}

--------------------------------------------------------------------------
(* Program constants.                                                      *)

Unit == 100
InitHazardThreshold == 50
\* The mutant starts with an obstacle closer than the threshold.
InitHazardDistanceNear == InitHazardThreshold - 10
InitHazardDistance == 9990
deadzone == 1
gamepad_deadzone == 20
SliderMin == 0
SliderMax == 100
SpeedGain == 5

\* The mutant lets the threshold slider go down to 0.
ThresholdSliderMinZero == SliderMin

\* threshold_slider.setRange(10, 100), in tenths of a metre.
ThresholdSliderMin == 10

ThresholdSliderMax == 100

\* Thresholds the operator sets: the slider's lowest value, 4.0 m, 5.0 m.
ThresholdChoices == {ThresholdSliderMin, 40, 50}

NoCall == [call |-> FALSE]
NoIntent == [none |-> TRUE]
NoRead == [read |-> FALSE]
NoSample == -1
Intent(x, z, s) == [x |-> x, z |-> z, speed |-> s]
ZeroIntent == Intent(0, 0, 0)

--------------------------------------------------------------------------
(* Arithmetic helpers.                                                     *)

Abs(a) == IF a < 0 THEN -a ELSE a
Sign(a) == IF a < 0 THEN -1 ELSE IF a > 0 THEN 1 ELSE 0
Max(a, b) == IF a > b THEN a ELSE b
Min(a, b) == IF a < b THEN a ELSE b

\* Python's int(): truncation toward zero of a / b (b > 0).
TruncDiv(a, b) == Sign(a) * (Abs(a) \div b)

\* floor of the square root of n, for 0 <= n <= Unit * Unit, by bisection
RECURSIVE SqrtBetween(_, _, _)
SqrtBetween(n, lo, hi) ==
    IF lo = hi
    THEN lo
    ELSE LET mid == (lo + hi + 1) \div 2
         IN  IF mid * mid <= n
             THEN SqrtBetween(n, mid, hi)
             ELSE SqrtBetween(n, lo, mid - 1)

Isqrt(n) == SqrtBetween(n, 0, Unit)

--------------------------------------------------------------------------
(* HazardControlGUI.update_output: the change gate.                        *)

\* The slider values v for which the doubles (v+1)/100.0 and v/100.0 differ
\* by more than the double 0.01, i.e. abs(speed - last_speed) > deadzone is
\* True for speeds one slider step apart (IEEE 754 binary64 arithmetic).
FloatStepUp ==
    {3, 4, 6, 9, 12, 13, 15, 16, 18, 19, 21, 22, 24, 25, 26, 27, 29, 30, 31,
     32, 33, 35, 36, 37, 38, 39, 41, 42, 43, 44, 45, 47, 48, 49, 50, 51, 52,
     53, 54, 55, 57, 58, 59, 60, 61, 62, 63, 64, 65, 66, 67, 69, 70, 71, 72,
     73, 74, 75, 76, 77, 78, 79, 80, 82, 83, 84, 85, 86, 87, 88, 89, 90, 91,
     92, 94, 95, 96, 97, 98, 99}

\* The mutant asks a direction to differ by more than 1.0.
DirExceedsFullSwing(a, b) == Abs(a - b) > Unit

\* abs(a - b) > self.deadzone for two directions (exact in binary64: the
\* operands are -1.0, 0.0 or 1.0).
DirExceeds(a, b) == Abs(a - b) > deadzone

\* abs(self.speed - self.last_speed) > self.deadzone for speeds a/100.0 and
\* b/100.0.
SpeedExceeds(a, b) ==
    \/ Abs(a - b) > deadzone
    \/ Abs(a - b) = deadzone /\ Min(a, b) \in FloatStepUp

\* The mutant lets the forward button win over the backward button.
ManualXForwardWins(b) ==
    IF b["forward"] THEN Unit ELSE IF b["backward"] THEN -Unit ELSE 0

\* x of update_output: forward adds 1.0, backward subtracts 1.0.
ManualX(b) ==
    (IF b["forward"] THEN Unit ELSE 0) - (IF b["backward"] THEN Unit ELSE 0)

\* z of update_output: left adds 1.0, right subtracts 1.0.
ManualZ(b) ==
    (IF b["left"] THEN Unit ELSE 0) - (IF b["right"] THEN Unit ELSE 0)

\* The mutant adds the controller direction to the buttons' direction.
CandidateWithController ==
    Intent(ManualX(button_states) + x_dir, ManualZ(button_states) + z_dir,
           speed)

\* The intent update_output compares and hands to wheel_drive.
Candidate == Intent(ManualX(button_states), ManualZ(button_states), speed)

\* The mutant asks all three fields to differ.
ChangeGateAnd(c) ==
    /\ DirExceeds(c.x, last_x)
    /\ DirExceeds(c.z, last_z)
    /\ SpeedExceeds(c.speed, last_speed)

\* The condition of the if statement: an OR over the three fields.
ChangeGate(c) ==
    \/ DirExceeds(c.x, last_x)
    \/ DirExceeds(c.z, last_z)
    \/ SpeedExceeds(c.speed, last_speed)

\* The mutant leaves override_safe_mode at its default.
WheelDriveCallDefaultOverride(c) ==
    [call |-> TRUE, x |-> c.x, z |-> c.z, speed |-> c.speed,
     override |-> FALSE]

\* The arguments of ros_node.wheel_drive(x, z, self.speed,
\* override_safe_mode=self.safe_mode_override).
WheelDriveCall(c) ==
    [call |-> TRUE, x |-> c.x, z |-> c.z, speed |-> c.speed,
     override |-> safe_mode_override]

\* Lines 340-342: the sent intent becomes the last one.  The mutant forgets
\* last_x.
RecordLastForgetsX(c) ==
    /\ last_z' = c.z
    /\ last_speed' = c.speed
    /\ UNCHANGED last_x

RecordLast(c) ==
    /\ last_x' = c.x
    /\ last_z' = c.z
    /\ last_speed' = c.speed

\* The if statement is not entered: nothing is sent, nothing recorded.  The
\* mutant records the intent although it was not sent.
HoldLastRecords(c) ==
    /\ RecordLast(c)
    /\ UNCHANGED wire

HoldLast(c) == UNCHANGED <<wire, last_x, last_z, last_speed>>

\* Whether a wheel_drive call can take effect (TRUE) or be lost without an
\* error (FALSE): it takes effect while the ROS thread is up, and may be
\* lost once ros_thread_function has left its loop.
SendOutcomes == IF ros_connected THEN {TRUE} ELSE BOOLEAN

\* One run of update_output; outcomes: what can become of a wheel_drive
\* call it makes.
DispatchTick(outcomes) ==
    /\ IF ros_node = "None"
       THEN /\ step' = "nonode"
            /\ cand' = NoIntent
            /\ UNCHANGED <<wire, applied, last_x, last_z, last_speed>>
       ELSE /\ cand' = Candidate
            /\ IF ChangeGate(Candidate)
               THEN /\ wire' = WheelDriveCall(Candidate)
                    /\ \E delivered \in outcomes :
                          applied' = IF delivered THEN Candidate ELSE applied
                    /\ RecordLast(Candidate)
                    /\ step' = "sent"
               ELSE /\ HoldLast(Candidate)
                    /\ UNCHANGED applied
                    /\ step' = "held"
    /\ axes' = NoRead
    /\ UNCHANGED sample
    /\ UNCHANGED <<button_states, speed, speed_slider, x_dir, z_dir,
                   hazard_distance, emergency_active, hazard_threshold,
                   safe_mode_override, mode_label, ros_node, ros_connected,
                   ros_pc, joystick, gamepad_connected, pad_attached>>

\* update_output with a transport on which every call takes effect.
update_output == DispatchTick({TRUE})

\* update_output with a transport that may lose calls.
update_output_lossy == DispatchTick(SendOutcomes)

--------------------------------------------------------------------------
(* HazardControlGUI.init_gamepad and update_gamepad.                       *)

\* (gamepad_connected, joystick) after init_gamepad; raised says whether a
\* pygame call inside its try block raised.
InitGamepadResult(raised) ==
    IF pad_attached /\ ~raised
    THEN <<TRUE, "Joystick0">>
    ELSE <<FALSE, "None">>

\* The mutant lets a reading exactly at the deadzone through.
DeadzonedInclusive(v) == IF Abs(v) >= gamepad_deadzone THEN v ELSE 0

\* -left_y if abs(left_y) > deadzone else 0.0 (and left_x likewise).
Deadzoned(v) == IF Abs(v) > gamepad_deadzone THEN v ELSE 0

\* One component of the direction after the "Normalize" block: divided by
\* the magnitude when the magnitude exceeds 1.0.  The quotient is rounded
\* toward zero to the model's resolution of 0.01.
Normalized(a, b) ==
    IF a * a + b * b > Unit * Unit
    THEN Sign(a) * Isqrt((Unit * Unit * a * a) \div (a * a + b * b))
    ELSE a

\* The mutant leaves out the min(100, ...).
NudgedSliderNoCeiling(current, right_x) ==
    Max(SliderMin, current + TruncDiv(right_x * SpeedGain, Unit))

\* max(0, min(100, current_slider_val + int(right_x * 5)))
NudgedSlider(current, right_x) ==
    Max(SliderMin, Min(SliderMax, current + TruncDiv(right_x * SpeedGain, Unit)))

\* What update_gamepad does once the axes are read: the speed nudge, the
\* direction, then get_button(9).  raised: get_button raised, and the except
\* branch ran.  emergency_stop, called when button 9 is down, is defined
\* outside this file; the fields modelled here are left as they are by it.
ApplyAxes(checked, raised, left_x, left_y, right_x) ==
    LET new_speed_val == NudgedSlider(speed_slider, right_x)
        xd == Deadzoned(-left_y)
        zd == Deadzoned(left_x)
    IN  /\ speed_slider' = new_speed_val
        /\ speed' = new_speed_val
        /\ x_dir' = Normalized(xd, zd)
        /\ z_dir' = Normalized(zd, xd)
        /\ gamepad_connected' = IF raised THEN FALSE ELSE checked[1]
        /\ joystick' = IF raised THEN "None" ELSE checked[2]
        /\ axes' = [read |-> TRUE, left_x |-> left_x, left_y |-> left_y,
                    right_x |-> right_x,
                    current_slider_val |-> speed_slider]
        /\ step' = IF raised THEN "pollfailed" ELSE "other"

\* The inputs of one run, each drawn only where the code reads it:
\* recheck: more than 5 s have passed since last_gamepad_check;
\* init_raised: init_gamepad's try block raised;
\* raised: "read" when event.pump, get_numaxes or get_axis raised, "button"
\* when get_button raised; num_axes: get_numaxes(); the axis readings,
\* taken from the sets lateral (axis 0), longitudinal (axis 1) and
\* speedaxis (axis 3).
PollGamepad(lateral, longitudinal, speedaxis) ==
    \E recheck \in BOOLEAN :
    \E init_raised \in IF recheck /\ pad_attached THEN BOOLEAN ELSE {FALSE} :
    LET checked == IF recheck
                   THEN InitGamepadResult(init_raised)
                   ELSE <<gamepad_connected, joystick>>
    IN  /\ IF ~checked[1]
           THEN /\ gamepad_connected' = checked[1]
                /\ joystick' = checked[2]
                /\ step' = "other"
                /\ UNCHANGED <<speed, speed_slider, x_dir, z_dir>>
                /\ axes' = NoRead
           ELSE \/ /\ gamepad_connected' = FALSE
                   /\ joystick' = "None"
                   /\ step' = "pollfailed"
                   /\ UNCHANGED <<speed, speed_slider, x_dir, z_dir>>
                   /\ axes' = NoRead
                \/ \E num_axes \in NumAxesChoices :
                      IF num_axes = 0
                      THEN /\ gamepad_connected' = checked[1]
                           /\ joystick' = checked[2]
                           /\ step' = "other"
                           /\ UNCHANGED <<speed, speed_slider, x_dir,
                                          z_dir>>
                           /\ axes' = NoRead
                      ELSE \E raised \in BOOLEAN,
                              left_x \in lateral,
                              left_y \in IF num_axes > 1
                                         THEN longitudinal ELSE {0},
                              right_x \in IF num_axes > 3
                                          THEN speedaxis ELSE {0} :
                              ApplyAxes(checked, raised, left_x, left_y,
                                        right_x)
        /\ UNCHANGED sample
        /\ UNCHANGED applied
        /\ UNCHANGED <<button_states, hazard_distance, emergency_active,
                       hazard_threshold, safe_mode_override, mode_label,
                       ros_node, ros_connected, ros_pc, pad_attached,
                       last_x, last_z, last_speed, wire, cand>>

\* update_gamepad as the 2 Hz timer runs it.
update_gamepad ==
    PollGamepad(LateralAxisValues, LongAxisValues, SpeedAxisValues)

\* update_gamepad with the sticks moved through the deadzone and the slider
\* pushed against both ends.
update_gamepad_sticks ==
    PollGamepad(StickLateralValues, StickLongValues, StickSpeedValues)

\* The environment plugs the controller in or pulls it out.
PlugController(present) ==
    /\ pad_attached # present
    /\ pad_attached' = present
    /\ step' = "other"
    /\ axes' = NoRead
    /\ UNCHANGED sample
    /\ UNCHANGED applied
    /\ UNCHANGED <<button_states, speed, speed_slider, x_dir, z_dir,
                   hazard_distance, emergency_active, hazard_threshold,
                   safe_mode_override, mode_label, ros_node, ros_connected,
                   ros_pc, joystick, gamepad_connected, last_x, last_z,
                   last_speed, wire, cand>>

--------------------------------------------------------------------------
(* Hazard monitoring.  The bodies of hazard_callback_gui,                  *)
(* update_hazard_display and update_threshold are outside this file; they  *)
(* follow HazardMonitor of the design: update replaces the distance, and   *)
(* the state is EMERGENCY iff the distance is below the threshold.         *)

\* HazardMonitor.state(): TRUE stands for EMERGENCY, FALSE for NORMAL.
SafetyState(distance, threshold) == distance < threshold

\* The mutant reads the override flag the wrong way round.
EffectiveModeSwapped(emergency, override) ==
    IF emergency
    THEN IF override THEN "EMERGENCY_STOPPED" ELSE "OVERRIDDEN"
    ELSE "NORMAL"

\* The mode of the interlock for a hazard state and an override flag.
EffectiveMode(emergency, override) ==
    IF emergency
    THEN IF override THEN "OVERRIDDEN" ELSE "EMERGENCY_STOPPED"
    ELSE "NORMAL"

\* A hazard sample arrives: the ROS thread calls gui_callback.
hazard_callback_gui(distance) ==
    /\ hazard_distance' = distance
    /\ emergency_active' = SafetyState(distance, hazard_threshold)
    /\ mode_label' = EffectiveMode(SafetyState(distance, hazard_threshold),
                                   safe_mode_override)

\* The operator moves the threshold slider (range 10..100, tenths of a metre).
update_threshold(value) ==
    /\ hazard_threshold' = value
    /\ emergency_active' = SafetyState(hazard_distance, value)
    /\ mode_label' = EffectiveMode(SafetyState(hazard_distance, value),
                                   safe_mode_override)
    /\ step' = "other"
    /\ axes' = NoRead
    /\ UNCHANGED sample
    /\ UNCHANGED applied
    /\ UNCHANGED <<button_states, speed, speed_slider, x_dir, z_dir,
                   hazard_distance, safe_mode_override, ros_node,
                   ros_connected, ros_pc, joystick, gamepad_connected,
                   pad_attached, last_x, last_z, last_speed, wire, cand>>

--------------------------------------------------------------------------
(* setup_ros_node: ros_thread_function, run by its own thread.             *)

\* rclpy.init() and the construction of the node; raised: one of them raised.
ros_thread_start(raised) ==
    /\ ros_pc = "start"
    /\ IF raised
       THEN /\ ros_connected' = FALSE
            /\ ros_pc' = "failed"
            /\ UNCHANGED ros_node
       ELSE /\ ros_node' = "node"
            /\ ros_connected' = TRUE
            /\ ros_pc' = "spin"
    /\ step' = "other"
    /\ axes' = NoRead
    /\ UNCHANGED sample
    /\ UNCHANGED applied
    /\ UNCHANGED <<button_states, speed, speed_slider, x_dir, z_dir,
                   hazard_distance, emergency_active, hazard_threshold,
                   safe_mode_override, mode_label, joystick,
                   gamepad_connected, pad_attached, last_x, last_z,
                   last_speed, wire, cand>>

\* One rclpy.spin_once that delivers a hazard sample.
ros_spin_once(distance) ==
    /\ ros_pc = "spin"
    /\ hazard_callback_gui(distance)
    /\ sample' = distance
    /\ step' = IF mode_label # "EMERGENCY_STOPPED"
                  /\ mode_label' = "EMERGENCY_STOPPED"
               THEN "entered"
               ELSE "sampled"
    /\ axes' = NoRead
    /\ UNCHANGED applied
    /\ UNCHANGED <<button_states, speed, speed_slider, x_dir, z_dir,
                   hazard_threshold, safe_mode_override, ros_node,
                   ros_connected, ros_pc, joystick, gamepad_connected,
                   pad_attached, last_x, last_z, last_speed, wire, cand>>

\* The mutant falls back to the distance of construction when the loop
\* ends.
ros_thread_end_forgets(raised) ==
    /\ ros_pc = "spin"
    /\ ros_connected' = FALSE
    /\ hazard_distance' = InitHazardDistance
    /\ ros_pc' = IF raised THEN "failed" ELSE "done"
    /\ step' = "other"
    /\ axes' = NoRead
    /\ UNCHANGED sample
    /\ UNCHANGED applied
    /\ UNCHANGED <<button_states, speed, speed_slider, x_dir, z_dir,
                   emergency_active, hazard_threshold,
                   safe_mode_override, mode_label, ros_node, joystick,
                   gamepad_connected, pad_attached, last_x, last_z,
                   last_speed, wire, cand>>

\* The loop ends: rclpy.ok() is false or shutting_down is set (normal end),
\* or the loop raised (the except branch).  Both leave ros_node set.
ros_thread_end(raised) ==
    /\ ros_pc = "spin"
    /\ ros_connected' = FALSE
    /\ ros_pc' = IF raised THEN "failed" ELSE "done"
    /\ step' = "other"
    /\ axes' = NoRead
    /\ UNCHANGED sample
    /\ UNCHANGED applied
    /\ UNCHANGED <<button_states, speed, speed_slider, x_dir, z_dir,
                   hazard_distance, emergency_active, hazard_threshold,
                   safe_mode_override, mode_label, ros_node, joystick,
                   gamepad_connected, pad_attached, last_x, last_z,
                   last_speed, wire, cand>>

--------------------------------------------------------------------------
(* Operator inputs.  The widget handlers are outside this file; they are   *)
(* the last-write-wins setters of the design's OperatorInput.              *)

\* A manual button is pressed (down = TRUE) or released.
set_button(b, down) ==
    /\ button_states[b] # down
    /\ button_states' = [button_states EXCEPT ![b] = down]
    /\ step' = "other"
    /\ axes' = NoRead
    /\ UNCHANGED sample
    /\ UNCHANGED applied
    /\ UNCHANGED <<speed, speed_slider, x_dir, z_dir, hazard_distance,
                   emergency_active, hazard_threshold, safe_mode_override,
                   mode_label, ros_node, ros_connected, ros_pc, joystick,
                   gamepad_connected, pad_attached, last_x, last_z,
                   last_speed, wire, cand>>

\* The operator drags the speed slider.
set_speed_slider(value) ==
    /\ speed_slider # value
    /\ speed_slider' = value
    /\ speed' = value
    /\ step' = "other"
    /\ axes' = NoRead
    /\ UNCHANGED sample
    /\ UNCHANGED applied
    /\ UNCHANGED <<button_states, x_dir, z_dir, hazard_distance,
                   emergency_active, hazard_threshold, safe_mode_override,
                   mode_label, ros_node, ros_connected, ros_pc, joystick,
                   gamepad_connected, pad_attached, last_x, last_z,
                   last_speed, wire, cand>>

\* The operator toggles the safe-mode override.
toggle_override ==
    /\ safe_mode_override' = ~safe_mode_override
    /\ mode_label' = EffectiveMode(emergency_active, ~safe_mode_override)
    /\ step' = "other"
    /\ axes' = NoRead
    /\ UNCHANGED sample
    /\ UNCHANGED applied
    /\ UNCHANGED <<button_states, speed, speed_slider, x_dir, z_dir,
                   hazard_distance, emergency_active, hazard_threshold,
                   ros_node, ros_connected, ros_pc, joystick,
                   gamepad_connected, pad_attached, last_x, last_z,
                   last_speed, wire, cand>>

--------------------------------------------------------------------------
(* The state after HazardControlGUI.__init__.                              *)

Init ==
    /\ pad_attached \in BOOLEAN
    /\ \E raised \in BOOLEAN :
          /\ gamepad_connected = InitGamepadResult(raised)[1]
          /\ joystick = InitGamepadResult(raised)[2]
    /\ speed = 0
    /\ speed_slider = 0
    /\ x_dir = 0
    /\ z_dir = 0
    /\ button_states = [b \in Buttons |-> FALSE]
    /\ hazard_distance = InitHazardDistance
    /\ emergency_active = FALSE
    /\ hazard_threshold = InitHazardThreshold
    /\ safe_mode_override = FALSE
    /\ mode_label = "NORMAL"
    /\ ros_node = "None"
    /\ ros_connected = FALSE
    /\ ros_pc = "start"
    /\ last_x = 0
    /\ last_z = 0
    /\ last_speed = 0
    /\ wire = NoCall
    /\ cand = NoIntent
    /\ applied = ZeroIntent
    /\ sample = NoSample
    /\ axes = NoRead
    /\ step = "other"

\* The console with no controller plugged in.
InitNoPad == Init /\ ~pad_attached

\* Without a controller update_gamepad returns before any read.
NextNoPad ==
    \/ update_output
    \/ update_gamepad
    \/ \E raised \in BOOLEAN : ros_thread_start(raised)
    \/ \E d \in SampleDistances : ros_spin_once(d)
    \/ \E raised \in BOOLEAN : ros_thread_end(raised)
    \/ \E v \in ThresholdChoices : update_threshold(v)
    \/ \E b \in Buttons, down \in BOOLEAN : set_button(b, down)
    \/ \E v \in SliderChoices : set_speed_slider(v)
    \/ toggle_override

Spec == InitNoPad /\ [][NextNoPad]_vars

\* The console with a controller, the operator using the forward and left
\* buttons, the threshold and the override left as constructed.
NextPad ==
    \/ update_output
    \/ update_gamepad
    \/ \E present \in BOOLEAN : PlugController(present)
    \/ \E raised \in BOOLEAN : ros_thread_start(raised)
    \/ \E d \in SampleDistances : ros_spin_once(d)
    \/ \E raised \in BOOLEAN : ros_thread_end(raised)
    \/ \E b \in {"forward", "left"}, down \in BOOLEAN : set_button(b, down)
    \/ \E v \in PadSliderChoices : set_speed_slider(v)

SpecPad == Init /\ [][NextPad]_vars

\* The console with a controller, the operator using the sticks and the
\* speed slider; the ROS thread is not looked at.
NextSticks ==
    \/ update_gamepad_sticks
    \/ \E present \in BOOLEAN : PlugController(present)
    \/ \E v \in StickSliderChoices : set_speed_slider(v)

SpecSticks == Init /\ [][NextSticks]_vars

\* The console with no controller and a transport that may lose calls once
\* the ROS thread has left its loop; the hazard feed is not looked at.
NextLossy ==
    \/ update_output_lossy
    \/ \E raised \in BOOLEAN : ros_thread_start(raised)
    \/ \E raised \in BOOLEAN : ros_thread_end(raised)
    \/ \E b \in Buttons, down \in BOOLEAN : set_button(b, down)
    \/ \E v \in SliderChoices : set_speed_slider(v)

SpecLossy == InitNoPad /\ [][NextLossy]_vars

--------------------------------------------------------------------------
(* The claims.                                                             *)

\* update_output ran on the latest step and reached the change gate.
Ticked == step \in {"sent", "held"}

\* The intent of the latest wheel_drive call.
WireIntent == Intent(wire.x, wire.z, wire.speed)

Mode == EffectiveMode(emergency_active, safe_mode_override)

\* C1: whenever the hazard state is EMERGENCY and override is false, the
\* intent a dispatch tick hands to send is exactly the zero intent {0,0,0}.
C1_EmergencySendIsZero ==
    (step = "sent" /\ emergency_active /\ ~safe_mode_override)
        => WireIntent = ZeroIntent

\* C2: when a sample puts the system into EMERGENCY_STOPPED while the last
\* sent command is non-zero, the next dispatch tick sends the zero intent.
C2_EnteringEmergencySendsZero ==
    [][(/\ step = "entered"
        /\ wire.call
        /\ WireIntent # ZeroIntent
        /\ step' \in {"sent", "held", "nonode"})
          => /\ step' = "sent"
             /\ Intent(wire'.x, wire'.z, wire'.speed) = ZeroIntent]_vars

\* C3: in every reachable state the hazard state is EMERGENCY iff the
\* current distance is strictly less than the current threshold; a distance
\* equal to the threshold yields NORMAL.
C3_EmergencyIffBelowThreshold ==
    emergency_active <=> (hazard_distance < hazard_threshold)

\* C3 witness: a sample exactly at the threshold has arrived, and the state
\* is NORMAL.
C3_AtThresholdIsNormal ==
    /\ hazard_distance = hazard_threshold
    /\ ~emergency_active

\* C4: the mode is EMERGENCY_STOPPED iff EMERGENCY and not override,
\* OVERRIDDEN iff EMERGENCY and override, NORMAL otherwise; exactly one of
\* the three in every state.
C4_ModeMatchesHazardAndOverride ==
    /\ mode_label \in {"NORMAL", "EMERGENCY_STOPPED", "OVERRIDDEN"}
    /\ (mode_label = "EMERGENCY_STOPPED")
           <=> (emergency_active /\ ~safe_mode_override)
    /\ (mode_label = "OVERRIDDEN")
           <=> (emergency_active /\ safe_mode_override)
    /\ (mode_label = "NORMAL") <=> ~emergency_active

\* C4 witness: an emergency with the override set, shown as OVERRIDDEN.
C4_OverriddenShown ==
    /\ emergency_active
    /\ safe_mode_override
    /\ mode_label = "OVERRIDDEN"

\* C5: in mode OVERRIDDEN or NORMAL the intent handed on is the input
\* intent with all three fields unchanged, and the override that makes the
\* mode OVERRIDDEN is reported alongside it.
C5_IntentPassedUnchanged ==
    (step = "sent" /\ Mode \in {"OVERRIDDEN", "NORMAL"})
        => /\ WireIntent = Candidate
           /\ wire.override = safe_mode_override

\* C5 witness: a non-zero intent was sent in mode OVERRIDDEN.
C5_SentWhileOverridden ==
    /\ step = "sent"
    /\ Mode = "OVERRIDDEN"
    /\ wire.x # 0
    /\ wire.speed # 0

\* Some field of the candidate differs from the last sent one by more than
\* change_epsilon.
SomeFieldDiffers ==
    \/ DirExceeds(ManualX(button_states), last_x)
    \/ DirExceeds(ManualZ(button_states), last_z)
    \/ SpeedExceeds(speed, last_speed)

\* C6 as stated: on each dispatch tick send is called iff some field of
\* the candidate differs from last_sent by more than change_epsilon.
C6_SendIffSomeFieldDiffers ==
    [][step' \in {"sent", "held", "nonode"}
          => ((step' = "sent") <=> SomeFieldDiffers)]_vars

\* C6 amended: on each dispatch tick that finds the transport node
\* (self.ros_node is set) send is called iff some field of the candidate
\* differs from last_sent by more than change_epsilon; a tick that finds no
\* node sends nothing.
C6_SendIffNodeAndSomeFieldDiffers ==
    [][step' \in {"sent", "held", "nonode"}
          => ((step' = "sent")
                 <=> (ros_node # "None" /\ SomeFieldDiffers))]_vars

\* C6 witness: a tick sent nothing although the speed differs from the last
\* sent speed (by no more than change_epsilon), the directions being sent
\* ones.
C6_SubEpsilonHeld ==
    /\ step = "held"
    /\ speed # last_speed
    /\ last_x # 0

\* C7: of two consecutive dispatch ticks with identical intents the second
\* never sends.
C7_SameIntentNotResent ==
    [][(step' \in {"sent", "held"} /\ cand' = cand) => step' # "sent"]_vars

\* C7 witness: a tick whose intent is the non-zero intent sent last sent
\* nothing.
C7_RepeatHeld ==
    /\ step = "held"
    /\ wire.call
    /\ cand = WireIntent
    /\ cand # ZeroIntent

C9_DirectionNormAtMostOne ==
    cand # NoIntent => cand.x * cand.x + cand.z * cand.z <= Unit * Unit

\* The sum of the manual direction and the controller direction, scaled to
\* unit norm when its norm exceeds 1.
FusedX == Normalized(ManualX(button_states) + x_dir,
                     ManualZ(button_states) + z_dir)
FusedZ == Normalized(ManualZ(button_states) + z_dir,
                     ManualX(button_states) + x_dir)

\* C10: with a controller present the direction of the intent given to the
\* dispatcher is the sum of the manual and the controller direction, scaled
\* to unit norm; a deflection with no button pressed gives a non-zero
\* direction.
C10_ControllerDirectionDispatched ==
    (Ticked /\ gamepad_connected)
        => /\ cand.x = FusedX
           /\ cand.z = FusedZ

\* 1 when the manual button is held, 0 when it is not.
Pressed(b) == IF button_states[b] THEN 1 ELSE 0

\* C11: for every state of the manual buttons the manual contribution is
\* forward = [forward] - [backward] and turn = [left] - [right]; two
\* opposing buttons held together contribute exactly 0 on their axis.
C11_ManualContribution ==
    Ticked
        => /\ cand.x = Unit * (Pressed("forward") - Pressed("backward"))
           /\ cand.z = Unit * (Pressed("left") - Pressed("right"))
           /\ (button_states["forward"] /\ button_states["backward"])
                  => cand.x = 0
           /\ (button_states["left"] /\ button_states["right"])
                  => cand.z = 0

\* C11 witness: a tick ran with forward and backward both held and left
\* alone held: the forward component is 0, the turn component is 1.
C11_OpposingButtonsCancel ==
    /\ Ticked
    /\ button_states["forward"] /\ button_states["backward"]
    /\ button_states["left"] /\ ~button_states["right"]
    /\ cand.x = 0
    /\ cand.z = Unit

\* The latest step was an update_gamepad run that read the axes.
Polled == axes.read

\* What a reading contributes according to the deadzone rule of the design.
Contribution(v) == IF Abs(v) <= gamepad_deadzone THEN 0 ELSE v

\* The two contributions of the latest readings lie within the unit
\* circle, so that the scaling to unit magnitude does not apply to them.
WithinUnit ==
    Contribution(axes.left_x) * Contribution(axes.left_x)
        + Contribution(axes.left_y) * Contribution(axes.left_y)
            <= Unit * Unit

\* C12: a reading v of a direction axis with |v| <= fusion_deadzone
\* contributes exactly 0 to the controller direction, and one with
\* |v| > fusion_deadzone contributes its value, not rescaled (axis 0 to the
\* turn component, axis 1 with its sign reversed to the forward component),
\* as long as the unit-magnitude scaling does not apply.
C12_DeadzoneContribution ==
    Polled
        => /\ Abs(axes.left_x) <= gamepad_deadzone => z_dir = 0
           /\ Abs(axes.left_y) <= gamepad_deadzone => x_dir = 0
           /\ (Abs(axes.left_x) > gamepad_deadzone /\ WithinUnit)
                  => z_dir = axes.left_x
           /\ (Abs(axes.left_y) > gamepad_deadzone /\ WithinUnit)
                  => x_dir = -axes.left_y

\* C12 witness: axis 0 read exactly the deadzone (0.2) and contributes 0,
\* axis 1 read -0.5 and contributes 0.5.
C12_AtDeadzoneZeroBeyondUnscaled ==
    /\ Polled
    /\ axes.left_x = gamepad_deadzone
    /\ z_dir = 0
    /\ axes.left_y = -50
    /\ x_dir = 50

\* The slider value the latest poll aimed at: the value it read plus
\* int(right_x * 5).
NudgeTarget ==
    axes.current_slider_val
        + (IF axes.right_x < 0
           THEN -((-axes.right_x * SpeedGain) \div Unit)
           ELSE (axes.right_x * SpeedGain) \div Unit)

\* C13: after any controller polls and slider settings the speed stays
\* within [0,1] (the slider within 0..100); a nudge that would leave the
\* range ends at the nearest bound, any other nudge at its target; the
\* result is the same whatever the direction axes read, and the poll leaves
\* the buttons' direction as it was.
C13_SpeedWithinRange ==
    /\ speed_slider \in SliderMin..SliderMax
    /\ speed = speed_slider
    /\ Polled
          => /\ NudgeTarget < SliderMin => speed_slider = SliderMin
             /\ NudgeTarget > SliderMax => speed_slider = SliderMax
             /\ NudgeTarget \in SliderMin..SliderMax
                    => speed_slider = NudgeTarget

\* C13 witness: with the slider at 98 and the left stick deflected, axis 3
\* read full right: the slider ends at 100, the speed at 1.0.
C13_NudgeClampedAtTop ==
    /\ Polled
    /\ axes.current_slider_val = 98
    /\ axes.right_x = Unit
    /\ speed_slider = SliderMax
    /\ speed = SliderMax
    /\ x_dir # 0

SampleArrives == step \in {"sampled", "entered"}

\* C15: the hazard distance changes only in a step that delivers a sample,
\* and a step that delivers one leaves exactly that sample's distance; the
\* hazard state changes only with a sample or with a move of the threshold.
\* Every other step - dispatch ticks, controller polls, the end of the ROS
\* thread - keeps both.
C15_DistanceChangesOnlyBySample ==
    [][/\ hazard_distance' # hazard_distance => SampleArrives'
       /\ SampleArrives' => hazard_distance' = sample'
       /\ emergency_active' # emergency_active
             => (SampleArrives' \/ hazard_threshold' # hazard_threshold)]_vars

\* C15 witness: the ROS thread has stopped after delivering 4.0 m, and a
\* dispatch tick that ran afterwards still finds 4.0 m and the emergency.
C15_DistanceKeptAfterThreadStopped ==
    /\ Ticked
    /\ ros_pc \in {"done", "failed"}
    /\ ~ros_connected
    /\ sample = 40
    /\ hazard_distance = 40
    /\ emergency_active

\* C16: a poll whose read fails marks the controller absent (and the poll
\* ends there, the console carrying on); the controller is marked absent
\* exactly when no joystick is held; and every dispatch tick that runs
\* while the controller is absent computes the buttons' direction alone,
\* whatever direction a poll stored before the failure.
C16_AbsentControllerManualOnly ==
    /\ step = "pollfailed" => ~gamepad_connected
    /\ gamepad_connected <=> joystick # "None"
    /\ (Ticked /\ ~gamepad_connected)
          => /\ cand.x = Unit * (Pressed("forward") - Pressed("backward"))
             /\ cand.z = Unit * (Pressed("left") - Pressed("right"))

\* C16 witness: the controller is absent, the direction a poll stored
\* before is still held in x_dir, no button is held, and the tick computed
\* a zero direction.
C16_StaleDirectionNotDispatched ==
    /\ Ticked
    /\ ~gamepad_connected
    /\ joystick = "None"
    /\ x_dir # 0
    /\ \A b \in Buttons : ~button_states[b]
    /\ cand.x = 0
    /\ cand.z = 0

\* C18: a dispatch tick consults the interlock between fusion and the
\* change gate, with the hazard state of the latest sample: the intent a
\* tick takes to the change gate right after a sample is the zero intent
\* when that sample left the mode EMERGENCY_STOPPED, and the fused intent
\* otherwise.
C18_TickUsesLatestSample ==
    [][(SampleArrives /\ step' \in {"sent", "held"})
          => cand' = IF Mode = "EMERGENCY_STOPPED"
                     THEN ZeroIntent
                     ELSE Intent(ManualX(button_states),
                                 ManualZ(button_states), speed)]_vars

\* The command of the latest wheel_drive call differs from what the
\* transport applied last by more than change_epsilon in some field.
DiffersFromApplied ==
    \/ DirExceeds(wire.x, applied.x)
    \/ DirExceeds(wire.z, applied.z)
    \/ SpeedExceeds(wire.speed, applied.speed)

\* C19: when the latest send was lost, so that the command still differs
\* from the state the transport applied last, a dispatch tick that finds
\* the same command sends it again, the operator inputs being unchanged.
C19_LostSendIsResent ==
    [][(/\ wire.call
        /\ DiffersFromApplied
        /\ step' \in {"sent", "held"}
        /\ cand' = WireIntent)
          => step' = "sent"]_vars

\* C20: right after every dispatch tick that ran with the transport node
\* present, each field of last_sent is within change_epsilon of the tick's
\* candidate, whether or not the tick sent; a tick that does not send
\* leaves last_sent as it was, so that later changes are measured against
\* it, and a tick whose candidate is further than change_epsilon from it
\* in some field sends.
C20_DriftBounded ==
    [][step' \in {"sent", "held"}
          => /\ Abs(cand'.x - last_x') <= deadzone
             /\ Abs(cand'.z - last_z') <= deadzone
             /\ Abs(cand'.speed - last_speed') <= deadzone
             /\ step' = "held" => UNCHANGED <<last_x, last_z, last_speed>>
             /\ (\/ Abs(cand'.x - last_x) > deadzone
                 \/ Abs(cand'.z - last_z) > deadzone
                 \/ Abs(cand'.speed - last_speed) > deadzone)
                   => step' = "sent"]_vars

\* C20 witness: after an earlier send the speed has moved by exactly
\* change_epsilon; the tick sent nothing and last_sent is one epsilon
\* behind the candidate.
C20_DriftOfOneEpsilonHeld ==
    /\ step = "held"
    /\ wire.call
    /\ cand.speed = last_speed + deadzone
    /\ cand.x = last_x
    /\ cand.z = last_z

==========================================================================
